---- MODULE Spec2Model ----
(***************************************************************************)
(* A model of the todo REST service in its two variants:                   *)
(*   - the file-backed variant (src/unnamed/part_000): an in-memory slice  *)
(*     `todos`, a counter `nextID` and the data file todos.json;           *)
(*   - the relational variant (src/main.go): a table `todos` with a SERIAL *)
(*     primary key, reached through single SQL statements.                 *)
(* The variable `backend` says which of the two programs is running.       *)
(*                                                                         *)
(* Strings that the code takes apart (URL paths) are sequences of          *)
(* one-character strings, so that HasPrefix, TrimPrefix, TrimSuffix and    *)
(* Atoi are computed as Go computes them.                                  *)
(***************************************************************************)
EXTENDS Integers, Sequences, FiniteSets, TLC

VARIABLES
    backend,     \* "file" (part_000) or "db" (main.go): the program running
    todos,       \* part_000:19  the in-memory slice, [isNil, elems]
    nextID,      \* part_000:20  the id counter
    file,        \* part_000:21  todos.json: [exists, json]
    table,       \* main.go      rows of the table todos (a set, PRIMARY KEY id)
    serial,      \* README SQL   last value of the SERIAL sequence of todos.id
    last,        \* the last request handled and the response it got
    issued,      \* history: ids returned by creates of this backend instance
    everIssued,  \* history: ids returned by creates over the dataset's lifetime
    workers,     \* concurrent request workers: position and locals of each
    started      \* number of requests the concurrent workers have started

vars == <<backend, todos, nextID, file, table, serial, last, issued,
          everIssued, workers, started>>

----------------------------------------------------------------------------
(* Bounds of the model *)

\* Creates are handled while the id to assign is at most MaxID.
MaxID == 2

\* Requests started per concurrent run (SpecConc).
MaxRequests == 3

Titles == {"a", "b"}

----------------------------------------------------------------------------
(* Strings as sequences of characters; strings and strconv of Go *)

Digits == <<"0", "1", "2", "3", "4", "5", "6", "7", "8", "9">>

IsDigit(c) == \E d \in 1..10 : Digits[d] = c

DigitVal(c) == (CHOOSE d \in 1..10 : Digits[d] = c) - 1

\* strings.HasPrefix
HasPrefix(s, p) == Len(s) >= Len(p) /\ SubSeq(s, 1, Len(p)) = p

\* strings.HasSuffix
HasSuffix(s, p) ==
    Len(s) >= Len(p) /\ SubSeq(s, Len(s) - Len(p) + 1, Len(s)) = p

\* strings.TrimPrefix: s without the leading p, s itself when p is no prefix
TrimPrefix(s, p) ==
    IF HasPrefix(s, p) THEN SubSeq(s, Len(p) + 1, Len(s)) ELSE s

\* strings.TrimSuffix
TrimSuffix(s, p) ==
    IF HasSuffix(s, p) THEN SubSeq(s, 1, Len(s) - Len(p)) ELSE s

RECURSIVE DecimalValue(_)
DecimalValue(ds) ==
    IF Len(ds) = 0 THEN 0
    ELSE 10 * DecimalValue(SubSeq(ds, 1, Len(ds) - 1)) + DigitVal(ds[Len(ds)])

\* strconv.Atoi: an optional sign, then one or more decimal digits.
Atoi(s) ==
    LET signed == Len(s) > 0 /\ s[1] \in {"+", "-"}
        ds     == IF signed THEN Tail(s) ELSE s
    IN  IF Len(ds) = 0 \/ \E i \in 1..Len(ds) : ~IsDigit(ds[i])
        THEN [err |-> TRUE, val |-> 0]
        ELSE [err |-> FALSE,
              val |-> IF signed /\ s[1] = "-" THEN 0 - DecimalValue(ds)
                      ELSE DecimalValue(ds)]

\* strconv.Itoa for the ids of the model (used to build request paths)
RECURSIVE Itoa(_)
Itoa(n) ==
    IF n < 10 THEN <<Digits[n + 1]>>
    ELSE Itoa(n \div 10) \o <<Digits[(n % 10) + 1]>>

PathTodos == <<"/", "t", "o", "d", "o", "s">>
PrefixTodos == <<"/", "t", "o", "d", "o", "s", "/">>
SuffixDone == <<"/", "d", "o", "n", "e">>

----------------------------------------------------------------------------
(* The record type, slices and JSON values *)

Todo(id, title, done) == [ID |-> id, Title |-> title, Done |-> done]

\* var t Todo: the zero value
ZeroTodo == Todo(0, "", FALSE)

\* A Go slice: nil or not, and its elements.
EmptySlice == [isNil |-> FALSE, elems |-> <<>>]
NilSlice == [isNil |-> TRUE, elems |-> <<>>]

\* append(s, t): never nil
Append1(s, t) == [isNil |-> FALSE, elems |-> Append(s.elems, t)]

\* append(s[:i], s[i+1:]...) with i counted from 1
RemoveAt(s, i) ==
    [isNil |-> s.isNil,
     elems |-> SubSeq(s.elems, 1, i - 1) \o SubSeq(s.elems, i + 1, Len(s.elems))]

\* JSON values that occur: null, an array of objects, one object
JsonNull == [kind |-> "null"]
JsonArray(items) == [kind |-> "array", items |-> items]
JsonObject(t) == [kind |-> "object", todo |-> t]

\* A strict part of a serialized slice: json.Unmarshal rejects it
JsonPartial == [kind |-> "partial"]

\* encoding/json on a []Todo: a nil slice is null, any other an array
MarshalSlice(s) == IF s.isNil THEN JsonNull ELSE JsonArray(s.elems)

\* json.Unmarshal into a *[]Todo: null gives nil, an array a fresh slice
UnmarshalSlice(j) ==
    IF j.kind = "null" THEN NilSlice
    ELSE [isNil |-> FALSE, elems |-> j.items]

\* Response bodies that are not JSON
TextBody == [kind |-> "text"]
NoBody == [kind |-> "empty"]

\* What `last` records of a request handled: the handler the router called,
\* the request line, the status and body written, and the parity of the number
\* of requests handled so far (two equal requests in a row are two steps).
Response(handler, r, status, body) ==
    [handler |-> handler, method |-> r.method, path |-> r.path,
     status |-> status, body |-> body, n |-> 1 - last.n]

----------------------------------------------------------------------------
(* Requests *)

Methods == {"GET", "POST", "PUT", "PATCH", "DELETE"}

\* The ids that occur in request paths: every id a create can assign.
PathIDs == 1..MaxID

IdPaths == {PrefixTodos \o Itoa(i) : i \in PathIDs}

Paths ==
    {PathTodos,
     PrefixTodos \o <<"x">>,
     <<"/", "x">> \o SuffixDone,
     PrefixTodos \o <<"1", "/", "2">>}
    \cup IdPaths
    \cup {p \o SuffixDone : p \in IdPaths}

\* A request body: whether json Decode accepts it, and the Todo it decodes to.
\* Decode fills the fields the body names: a body may name an id of its own.
BadBody == [err |-> TRUE, todo |-> ZeroTodo]
Bodies ==
    {BadBody, [err |-> FALSE, todo |-> Todo(2, "a", TRUE)]} \cup
    {[err |-> FALSE, todo |-> Todo(0, t, d)] : t \in Titles, d \in BOOLEAN}

\* Bodies vary where a handler comes to decode them after a well-formed
\* path (POST /todos, PUT /todos/<id>); the other requests carry one body.
Requests ==
    {[method |-> "POST", path |-> PathTodos, body |-> b] : b \in Bodies}
    \cup {[method |-> "PUT", path |-> p, body |-> b] :
            p \in IdPaths, b \in Bodies}
    \cup {[method |-> m, path |-> p, body |-> BadBody] :
            m \in Methods, p \in Paths}

----------------------------------------------------------------------------
(* The file-backed variant: src/unnamed/part_000 *)

\* The switch of router, first match wins; the name of the handler called.
router(r) ==
    IF r.method = "GET" /\ r.path = PathTodos THEN "getTodos"
    ELSE IF r.method = "POST" /\ r.path = PathTodos THEN "createTodo"
    ELSE IF r.method = "GET" /\ HasPrefix(r.path, PrefixTodos) THEN "getTodo"
    ELSE IF r.method = "PUT" /\ HasPrefix(r.path, PrefixTodos) THEN "updateTodo"
    ELSE IF r.method = "DELETE" /\ HasPrefix(r.path, PrefixTodos) THEN "deleteTodo"
    ELSE IF r.method = "PATCH" /\ HasSuffix(r.path, SuffixDone) THEN "markAsDone"
    ELSE "NotFound"

\* for i, t := range todos { if t.ID == id {...} }: the first index whose
\* record has the id (counted from 1), 0 when the loop falls through.
\* A search that answers the first record whatever id is asked for.
IndexOfIDFirstRecord(elems, id) == IF Len(elems) = 0 THEN 0 ELSE 1

IndexOfID(elems, id) ==
    IF \E i \in 1..Len(elems) : elems[i].ID = id
    THEN CHOOSE i \in 1..Len(elems) :
            /\ elems[i].ID = id
            /\ \A j \in 1..(i - 1) : elems[j].ID # id
    ELSE 0

\* saveTodosToFile: the content of the file after it ran on the slice ts;
\* wok is what os.WriteFile did: "ok" (it wrote the bytes and returned nil) or
\* one of the ways it fails, which saveTodosToFile only logs.  os.WriteFile
\* opens the file with O_CREATE|O_TRUNC, writes and closes: a failed open
\* leaves the file "untouched", a failed write leaves it "partial" (created
\* or truncated, holding a strict part of the bytes, which is no JSON
\* document), a failed close leaves it "complete".
saveTodosToFile(ts, wok) ==
    IF wok \in {"ok", "complete"}
    THEN [exists |-> TRUE, json |-> MarshalSlice(ts)]
    ELSE IF wok = "partial"
    THEN [exists |-> TRUE, json |-> JsonPartial]
    ELSE file

\* The loop of loadTodosFromFile that advances nextID past the ids seen.
RECURSIVE AdvanceNextID(_, _)
AdvanceNextID(elems, n) ==
    IF Len(elems) = 0 THEN n
    ELSE AdvanceNextID(Tail(elems),
                       IF Head(elems).ID >= n THEN Head(elems).ID + 1 ELSE n)

\* json.Unmarshal fails on the content of the file: loadTodosFromFile ends
\* the process with log.Fatalf and nothing is served.
ParseFails(f) == f.exists /\ f.json = JsonPartial

\* A loader that resumes the counter after the number of records loaded
\* instead of after the greatest id loaded.
loadTodosFromFileCountingRecords(f) ==
    IF ~f.exists
    THEN [todos |-> EmptySlice, nextID |-> 1]
    ELSE LET loaded == UnmarshalSlice(f.json)
         IN  [todos |-> loaded, nextID |-> Len(loaded.elems) + 1]

\* loadTodosFromFile, run on the package-level initial values
\* (todos = []Todo{}, nextID = 1): the slice and the counter it leaves.
loadTodosFromFile(f) ==
    IF ~f.exists
    THEN [todos |-> EmptySlice, nextID |-> 1]
    ELSE LET loaded == UnmarshalSlice(f.json)
         IN  [todos |-> loaded, nextID |-> AdvanceNextID(loaded.elems, 1)]

\* idStr of getTodo, updateTodo and deleteTodo
IdOfPath(path) == Atoi(TrimPrefix(path, PrefixTodos))

\* idStr of markAsDone
IdOfDonePath(path) == Atoi(TrimSuffix(TrimPrefix(path, PrefixTodos), SuffixDone))

\* A createTodo that forgets nextID++
NextIDNotIncremented(n) == n

\* nextID++
IncrementNextID(n) == n + 1

\* A markAsDone that stores a fresh Todo{ID: id, Done: true} over the record
SetDoneLosesTitle(t) == [ZeroTodo EXCEPT !.ID = t.ID, !.Done = TRUE]

\* todos[i].Done = true
SetDone(t) == [t EXCEPT !.Done = TRUE]

\* updated.ID = id; todos[i] = updated
ReplaceTodo(updated, id) == [updated EXCEPT !.ID = id]

FileFrame == UNCHANGED <<backend, table, serial, workers, started>>

getTodos(r) ==
    /\ last' = Response("getTodos", r, 200, MarshalSlice(todos))
    /\ UNCHANGED <<todos, nextID, file, issued, everIssued>>
    /\ FileFrame

getTodo(r) ==
    LET id == IdOfPath(r.path)
        i  == IndexOfID(todos.elems, id.val)
    IN  /\ last' = IF id.err THEN Response("getTodo", r, 400, TextBody)
                   ELSE IF i # 0
                        THEN Response("getTodo", r, 200, JsonObject(todos.elems[i]))
                        ELSE Response("getTodo", r, 404, TextBody)
        /\ UNCHANGED <<todos, nextID, file, issued, everIssued>>
        /\ FileFrame

\* A create that takes the next id before it decodes the body.
createTodoConsumingID(r, wok) ==
    LET t == [r.body.todo EXCEPT !.ID = nextID]
    IN  /\ nextID <= MaxID
        /\ nextID' = IncrementNextID(nextID)
        /\ IF r.body.err
           THEN /\ last' = Response("createTodo", r, 400, TextBody)
                /\ UNCHANGED <<todos, file, issued, everIssued>>
           ELSE /\ todos' = Append1(todos, t)
                /\ file' = saveTodosToFile(todos', wok)
                /\ last' = Response("createTodo", r, 201, JsonObject(t))
                /\ issued' = Append(issued, t.ID)
                /\ everIssued' = everIssued \cup {t.ID}
        /\ FileFrame

\* A create that answers 500 and takes the record and the id back when the
\* write fails.
createTodoRollingBack(r, wok) ==
    IF r.body.err
    THEN /\ last' = Response("createTodo", r, 400, TextBody)
         /\ UNCHANGED <<todos, nextID, file, issued, everIssued>>
         /\ FileFrame
    ELSE LET t == [r.body.todo EXCEPT !.ID = nextID]
         IN  /\ nextID <= MaxID
             /\ file' = saveTodosToFile(Append1(todos, t), wok)
             /\ IF wok = "ok"
                THEN /\ nextID' = IncrementNextID(nextID)
                     /\ todos' = Append1(todos, t)
                     /\ last' = Response("createTodo", r, 201, JsonObject(t))
                     /\ issued' = Append(issued, t.ID)
                     /\ everIssued' = everIssued \cup {t.ID}
                ELSE /\ last' = Response("createTodo", r, 500, TextBody)
                     /\ UNCHANGED <<todos, nextID, issued, everIssued>>
             /\ FileFrame

createTodo(r, wok) ==
    IF r.body.err
    THEN /\ last' = Response("createTodo", r, 400, TextBody)
         /\ UNCHANGED <<todos, nextID, file, issued, everIssued>>
         /\ FileFrame
    ELSE LET t == [r.body.todo EXCEPT !.ID = nextID]
         IN  /\ nextID <= MaxID
             /\ nextID' = IncrementNextID(nextID)
             /\ todos' = Append1(todos, t)
             /\ file' = saveTodosToFile(todos', wok)
             /\ last' = Response("createTodo", r, 201, JsonObject(t))
             /\ issued' = Append(issued, t.ID)
             /\ everIssued' = everIssued \cup {t.ID}
             /\ FileFrame

updateTodo(r, wok) ==
    LET id == IdOfPath(r.path)
        i  == IndexOfID(todos.elems, id.val)
        updated == ReplaceTodo(r.body.todo, id.val)
    IN  IF id.err \/ r.body.err
        THEN /\ last' = Response("updateTodo", r, 400, TextBody)
             /\ UNCHANGED <<todos, nextID, file, issued, everIssued>>
             /\ FileFrame
        ELSE IF i # 0
        THEN /\ todos' = [todos EXCEPT !.elems[i] = updated]
             /\ file' = saveTodosToFile(todos', wok)
             /\ last' = Response("updateTodo", r, 200, JsonObject(updated))
             /\ UNCHANGED <<nextID, issued, everIssued>>
             /\ FileFrame
        ELSE /\ last' = Response("updateTodo", r, 404, TextBody)
             /\ UNCHANGED <<todos, nextID, file, issued, everIssued>>
             /\ FileFrame

markAsDone(r, wok) ==
    LET id == IdOfDonePath(r.path)
        i  == IndexOfID(todos.elems, id.val)
    IN  IF id.err
        THEN /\ last' = Response("markAsDone", r, 400, TextBody)
             /\ UNCHANGED <<todos, nextID, file, issued, everIssued>>
             /\ FileFrame
        ELSE IF i # 0
        THEN /\ todos' = [todos EXCEPT !.elems[i] = SetDone(todos.elems[i])]
             /\ file' = saveTodosToFile(todos', wok)
             /\ last' = Response("markAsDone", r, 200, JsonObject(todos'.elems[i]))
             /\ UNCHANGED <<nextID, issued, everIssued>>
             /\ FileFrame
        ELSE /\ last' = Response("markAsDone", r, 404, TextBody)
             /\ UNCHANGED <<todos, nextID, file, issued, everIssued>>
             /\ FileFrame

deleteTodo(r, wok) ==
    LET id == IdOfPath(r.path)
        i  == IndexOfID(todos.elems, id.val)
    IN  IF id.err
        THEN /\ last' = Response("deleteTodo", r, 400, TextBody)
             /\ UNCHANGED <<todos, nextID, file, issued, everIssued>>
             /\ FileFrame
        ELSE IF i # 0
        THEN /\ todos' = RemoveAt(todos, i)
             /\ file' = saveTodosToFile(todos', wok)
             /\ last' = Response("deleteTodo", r, 204, NoBody)
             /\ UNCHANGED <<nextID, issued, everIssued>>
             /\ FileFrame
        ELSE /\ last' = Response("deleteTodo", r, 404, TextBody)
             /\ UNCHANGED <<todos, nextID, file, issued, everIssued>>
             /\ FileFrame

\* default: http.NotFound(w, r)
NotFound(r) ==
    /\ last' = Response("NotFound", r, 404, TextBody)
    /\ UNCHANGED <<backend, todos, nextID, file, table, serial, issued,
                   everIssued, workers, started>>

\* The process stops and is started again: main runs loadTodosFromFile on
\* the initial values of the package variables.
Started == [handler |-> "main", method |-> "", path |-> <<>>, status |-> 0,
            body |-> NoBody, n |-> 0]

Restart ==
    /\ backend = "file"
    /\ ~ParseFails(file)
    /\ todos' = loadTodosFromFile(file).todos
    /\ nextID' = loadTodosFromFile(file).nextID
    /\ last' = Started
    /\ issued' = <<>>
    /\ UNCHANGED <<file, everIssued>>
    /\ FileFrame

----------------------------------------------------------------------------
(* The relational variant: src/main.go.  Every db.Query, db.QueryRow and   *)
(* db.Exec is one round trip; `up` says whether the round trip succeeded.  *)

routerDb(r) ==
    IF r.method = "GET" /\ r.path = PathTodos THEN "getTodos"
    ELSE IF r.method = "POST" /\ r.path = PathTodos THEN "createTodo"
    ELSE IF r.method = "GET" /\ HasPrefix(r.path, PrefixTodos) THEN "getTodoById"
    ELSE IF r.method = "PUT" /\ HasPrefix(r.path, PrefixTodos) THEN "updateTodo"
    ELSE IF r.method = "DELETE" /\ HasPrefix(r.path, PrefixTodos) THEN "deleteTodo"
    ELSE IF r.method = "PATCH" /\ HasSuffix(r.path, SuffixDone) THEN "markAsDone"
    ELSE "NotFound"

\* SELECT id, title, done FROM todos ORDER BY id: the rows by ascending id
RECURSIVE SelectOrderById(_)
SelectOrderById(rows) ==
    IF rows = {} THEN <<>>
    ELSE LET first == CHOOSE x \in rows : \A y \in rows : x.ID <= y.ID
         IN  <<first>> \o SelectOrderById(rows \ {first})

\* var todos []Todo; for rows.Next() { todos = append(todos, t) }
RECURSIVE AppendRows(_, _)
AppendRows(s, rows) ==
    IF Len(rows) = 0 THEN s
    ELSE AppendRows(Append1(s, Head(rows)), Tail(rows))

\* SELECT id, title, done FROM todos WHERE id = $1
SelectById(rows, id) == {x \in rows : x.ID = id}

\* INSERT INTO todos (title, done) VALUES ($1, $2) RETURNING id: the id column
\* is SERIAL, its default the next value of the sequence.
NextSerial(n) == n + 1

\* UPDATE todos SET title = $1, done = $2 WHERE id = $3
UpdateRows(rows, title, done, id) ==
    {IF x.ID = id THEN [x EXCEPT !.Title = title, !.Done = done] ELSE x :
        x \in rows}

\* UPDATE todos SET done = true WHERE id = $1
UpdateDone(rows, id) ==
    {IF x.ID = id THEN [x EXCEPT !.Done = TRUE] ELSE x : x \in rows}

\* DELETE FROM todos WHERE id = $1
DeleteRows(rows, id) == {x \in rows : x.ID # id}

DbFrame == UNCHANGED <<backend, todos, nextID, file, workers, started>>

getTodosDb(r, up) ==
    /\ last' = IF ~up THEN Response("getTodos", r, 500, TextBody)
               ELSE Response("getTodos", r, 200,
                        MarshalSlice(AppendRows(NilSlice, SelectOrderById(table))))
    /\ UNCHANGED <<table, serial, issued, everIssued>>
    /\ DbFrame

getTodoById(r, up) ==
    LET id  == IdOfPath(r.path)
        row == SelectById(table, id.val)
    IN  /\ last' = IF id.err THEN Response("getTodoById", r, 400, TextBody)
                   ELSE IF ~up \/ row = {}
                        THEN Response("getTodoById", r, 404, TextBody)
                        ELSE Response("getTodoById", r, 200,
                                      JsonObject(CHOOSE x \in row : TRUE))
        /\ UNCHANGED <<table, serial, issued, everIssued>>
        /\ DbFrame

createTodoDb(r, up) ==
    IF r.body.err \/ ~up
    THEN /\ last' = Response("createTodo", r,
                             IF r.body.err THEN 400 ELSE 500, TextBody)
         /\ UNCHANGED <<table, serial, issued, everIssued>>
         /\ DbFrame
    ELSE LET t == [r.body.todo EXCEPT !.ID = NextSerial(serial)]
         IN  /\ serial < MaxID
             /\ serial' = NextSerial(serial)
             /\ table' = table \cup {t}
             /\ last' = Response("createTodo", r, 201, JsonObject(t))
             /\ issued' = Append(issued, t.ID)
             /\ everIssued' = everIssued \cup {t.ID}
             /\ DbFrame

updateTodoDb(r, up) ==
    LET id == IdOfPath(r.path)
        updated == r.body.todo
    IN  IF id.err \/ r.body.err \/ ~up
        THEN /\ last' = Response("updateTodo", r,
                                 IF id.err \/ r.body.err THEN 400 ELSE 500,
                                 TextBody)
             /\ UNCHANGED <<table, serial, issued, everIssued>>
             /\ DbFrame
        ELSE /\ table' = UpdateRows(table, updated.Title, updated.Done, id.val)
             /\ last' = Response("updateTodo", r, 200,
                                 JsonObject([updated EXCEPT !.ID = id.val]))
             /\ UNCHANGED <<serial, issued, everIssued>>
             /\ DbFrame

\* Two round trips: the UPDATE (up), then the SELECT (up2).
markAsDoneDb(r, up, up2) ==
    LET id  == IdOfDonePath(r.path)
        row == SelectById(table', id.val)
    IN  IF id.err \/ ~up
        THEN /\ last' = Response("markAsDone", r,
                                 IF id.err THEN 400 ELSE 500, TextBody)
             /\ UNCHANGED <<table, serial, issued, everIssued>>
             /\ DbFrame
        ELSE /\ table' = UpdateDone(table, id.val)
             /\ last' = IF ~up2 \/ row = {}
                        THEN Response("markAsDone", r, 404, TextBody)
                        ELSE Response("markAsDone", r, 200,
                                      JsonObject(CHOOSE x \in row : TRUE))
             /\ UNCHANGED <<serial, issued, everIssued>>
             /\ DbFrame

deleteTodoDb(r, up) ==
    LET id == IdOfPath(r.path)
    IN  IF id.err \/ ~up
        THEN /\ last' = Response("deleteTodo", r,
                                 IF id.err THEN 400 ELSE 500, TextBody)
             /\ UNCHANGED <<table, serial, issued, everIssued>>
             /\ DbFrame
        ELSE /\ table' = DeleteRows(table, id.val)
             /\ last' = Response("deleteTodo", r, 204, NoBody)
             /\ UNCHANGED <<serial, issued, everIssued>>
             /\ DbFrame

----------------------------------------------------------------------------
(* Requests handled one after another *)

Workers == {"w1", "w2"}

\* A response not yet written
NoResponse == [handler |-> "", method |-> "", path |-> <<>>, status |-> 0,
               body |-> NoBody]

\* A worker between two requests; resp is the answer to its last request.
Idle(resp) ==
    [pc |-> "idle", handler |-> "", r |-> [method |-> "", path |-> <<>>],
     i |-> 0, t |-> ZeroTodo, data |-> JsonNull, resp |-> resp]

InitData ==
    /\ todos = loadTodosFromFile([exists |-> FALSE, json |-> JsonNull]).todos
    /\ nextID = loadTodosFromFile([exists |-> FALSE, json |-> JsonNull]).nextID
    /\ file = [exists |-> FALSE, json |-> JsonNull]
    /\ table = {}
    /\ serial = 0
    /\ last = Started
    /\ issued = <<>>
    /\ everIssued = {}

Init ==
    /\ backend \in {"file", "db"}
    /\ InitData
    /\ workers = [w \in Workers |-> Idle(NoResponse)]
    /\ started = 0

\* os.WriteFile succeeds in Spec.
WriteOK == {"ok"}

HandlerNames ==
    {"getTodos", "createTodo", "getTodo", "getTodoById", "updateTodo",
     "deleteTodo", "markAsDone", "NotFound"}

\* The requests each case of the router's switch takes.
Routed == [h \in HandlerNames |-> {r \in Requests : router(r) = h}]
RoutedDb == [h \in HandlerNames |-> {r \in Requests : routerDb(r) = h}]

FileGetTodos ==
    /\ backend = "file"
    /\ \E r \in Routed["getTodos"] :
        getTodos(r)

FileGetTodo ==
    /\ backend = "file"
    /\ \E r \in Routed["getTodo"] :
        getTodo(r)

FileCreateTodo ==
    /\ backend = "file"
    /\ \E r \in Routed["createTodo"], wok \in WriteOK :
        createTodo(r, wok)

FileUpdateTodo ==
    /\ backend = "file"
    /\ \E r \in Routed["updateTodo"], wok \in WriteOK :
        updateTodo(r, wok)

FileMarkAsDone ==
    /\ backend = "file"
    /\ \E r \in Routed["markAsDone"], wok \in WriteOK :
        markAsDone(r, wok)

FileDeleteTodo ==
    /\ backend = "file"
    /\ \E r \in Routed["deleteTodo"], wok \in WriteOK :
        deleteTodo(r, wok)

FileNotFound ==
    /\ backend = "file"
    /\ \E r \in Routed["NotFound"] :
        NotFound(r)

DbGetTodos ==
    /\ backend = "db"
    /\ \E r \in RoutedDb["getTodos"], up \in BOOLEAN :
        getTodosDb(r, up)

DbGetTodoById ==
    /\ backend = "db"
    /\ \E r \in RoutedDb["getTodoById"], up \in BOOLEAN :
        getTodoById(r, up)

DbCreateTodo ==
    /\ backend = "db"
    /\ \E r \in RoutedDb["createTodo"], up \in BOOLEAN :
        createTodoDb(r, up)

DbUpdateTodo ==
    /\ backend = "db"
    /\ \E r \in RoutedDb["updateTodo"], up \in BOOLEAN :
        updateTodoDb(r, up)

DbMarkAsDone ==
    /\ backend = "db"
    /\ \E r \in RoutedDb["markAsDone"], up \in BOOLEAN, up2 \in BOOLEAN :
        markAsDoneDb(r, up, up2)

DbDeleteTodo ==
    /\ backend = "db"
    /\ \E r \in RoutedDb["deleteTodo"], up \in BOOLEAN :
        deleteTodoDb(r, up)

DbNotFound ==
    /\ backend = "db"
    /\ \E r \in RoutedDb["NotFound"] :
        NotFound(r)

Next ==
    \/ FileGetTodos
    \/ FileGetTodo
    \/ FileCreateTodo
    \/ FileUpdateTodo
    \/ FileMarkAsDone
    \/ FileDeleteTodo
    \/ FileNotFound
    \/ Restart
    \/ DbGetTodos
    \/ DbGetTodoById
    \/ DbCreateTodo
    \/ DbUpdateTodo
    \/ DbMarkAsDone
    \/ DbDeleteTodo
    \/ DbNotFound

Spec == Init /\ [][Next]_vars

----------------------------------------------------------------------------
(* Properties of requests handled one after another (Spec) *)

\* The records of the dataset of the running backend, in the order GET /todos
\* lists them when the backend is the file-backed one.
DatasetIDs ==
    IF backend = "file"
    THEN {todos.elems[i].ID : i \in 1..Len(todos.elems)}
    ELSE {x.ID : x \in table}

DatasetSize ==
    IF backend = "file" THEN Len(todos.elems) ELSE Cardinality(table)

DatasetRecords ==
    IF backend = "file"
    THEN {todos.elems[i] : i \in 1..Len(todos.elems)}
    ELSE table

IdCounter == IF backend = "file" THEN nextID ELSE serial

\* A path segment: not empty, no slash in it.
IsSegment(s) == Len(s) > 0 /\ \A i \in 1..Len(s) : s[i] # "/"

\* The six rows of the dispatch table, read as patterns over whole paths.
InDispatchTable(method, path) ==
    LET rest == TrimPrefix(path, PrefixTodos)
    IN  \/ method \in {"GET", "POST"} /\ path = PathTodos
        \/ /\ method \in {"GET", "PUT", "DELETE"}
           /\ HasPrefix(path, PrefixTodos)
           /\ IsSegment(rest)
        \/ /\ method = "PATCH"
           /\ HasPrefix(path, PrefixTodos)
           /\ HasSuffix(rest, SuffixDone)
           /\ IsSegment(TrimSuffix(rest, SuffixDone))

\* C1: the ids that the creates of one backend instance return, in the order
\* of the creates, are strictly increasing, whatever was deleted in between.
C1_CreatedIdsIncrease ==
    \A i, j \in 1..Len(issued) : i < j => issued[i] < issued[j]

\* C1 witness: a second create has answered after the record with the highest
\* id (the first create's) was deleted.
C1_Witness ==
    /\ Len(issued) = 2
    /\ last.handler = "createTodo" /\ last.status = 201
    /\ last.body.todo.ID = issued[2]
    /\ issued[1] \notin DatasetIDs

\* C3: DELETE /todos/{id} for an id that no record has is never answered 204:
\* it is answered 404 (500 when the storage round trip fails).
C3_DeleteUnknownIsNotFound ==
    [][(/\ last'.handler = "deleteTodo"
        /\ ~IdOfPath(last'.path).err
        /\ IdOfPath(last'.path).val \notin DatasetIDs)
       => last'.status \in {404, 500}]_vars

\* C4: PUT /todos/{id} with a decodable body (any answer but 400) for an id
\* that no record has is answered 404 (500 when the storage round trip fails)
\* and leaves the dataset unchanged.
C4_UpdateUnknownIsNotFound ==
    [][(/\ last'.handler = "updateTodo"
        /\ last'.status # 400
        /\ IdOfPath(last'.path).val \notin DatasetIDs)
       => /\ last'.status \in {404, 500}
          /\ UNCHANGED <<todos, nextID, table, serial>>]_vars

\* C6: a request whose method and path match no row of the dispatch table is
\* answered 404 by the router itself, without calling a handler.
C6_UnmatchedIs404 ==
    (last.handler # "main" /\ ~InDispatchTable(last.method, last.path))
        => (last.status = 404 /\ last.handler = "NotFound")

\* C7: in the file-backed backend a create never returns an id that an earlier
\* create returned, before or after any restart.
C7_IdNeverReassigned ==
    [][(backend = "file" /\ Len(issued') = Len(issued) + 1)
       => issued'[Len(issued')] \notin everIssued]_vars

\* C9: GET /todos is answered 200 with a JSON array, the empty array when
\* there is no record (a failed storage round trip, answered 500, aside).
C9_ListIsArray ==
    (last.handler = "getTodos" /\ last.status # 500)
        => (last.status = 200 /\ last.body.kind = "array")

\* C10: a PATCH /todos/{id}/done answered 200 leaves every record's id and
\* title, the done flag of every other record, the number of records and the
\* id counter as they were, and the record with the id has done = true.
C10_MarkDoneFrame ==
    [][(last'.handler = "markAsDone" /\ last'.status = 200)
       => LET id == IdOfDonePath(last'.path).val
          IN  /\ DatasetSize' = DatasetSize
              /\ IdCounter' = IdCounter
              /\ id \in DatasetIDs
              /\ \A x \in DatasetRecords :
                    IF x.ID = id
                    THEN [x EXCEPT !.Done = TRUE] \in DatasetRecords'
                    ELSE x \in DatasetRecords'
              /\ backend = "file" =>
                    \A i \in 1..Len(todos.elems) :
                        /\ todos'.elems[i].ID = todos.elems[i].ID
                        /\ todos'.elems[i].Title = todos.elems[i].Title
              /\ last'.body.todo \in DatasetRecords'
              /\ last'.body.todo.ID = id
              /\ last'.body.todo.Done]_vars

\* C10 witness: a PATCH was answered 200 for a record with a title while
\* another record, not done, is in the dataset.
C10_Witness ==
    /\ last.handler = "markAsDone" /\ last.status = 200
    /\ last.body.todo.Title = "b"
    /\ DatasetSize = 2
    /\ \E x \in DatasetRecords : x.ID # last.body.todo.ID /\ ~x.Done

----------------------------------------------------------------------------
(* Requests handled concurrently (SpecConc).  net/http runs every request  *)
(* in a goroutine of its own; the handlers take no lock.  A handler of the *)
(* file-backed variant is split where it reads or writes todos, nextID or  *)
(* the file; a handler of the relational variant at its SQL statements,    *)
(* each of which the database runs atomically.  File writes and round     *)
(* trips succeed here.  The unsynchronised accesses are data races; the    *)
(* interleavings of whole statements taken here are among the outcomes a   *)
(* build can produce (nextID++ is taken as one step).                      *)

GoodBody(title, done) == [err |-> FALSE, todo |-> Todo(0, title, done)]

ConcRequests ==
    {[method |-> "POST", path |-> PathTodos, body |-> GoodBody("a", FALSE)],
     [method |-> "GET", path |-> PathTodos, body |-> BadBody]}
    \cup {[method |-> "PUT", path |-> p, body |-> GoodBody("b", FALSE)] :
            p \in IdPaths}
    \cup {[method |-> "PATCH", path |-> p \o SuffixDone, body |-> BadBody] :
            p \in IdPaths}
    \cup {[method |-> "DELETE", path |-> p, body |-> BadBody] : p \in IdPaths}

ConcRouted == [h \in HandlerNames |-> {r \in ConcRequests : router(r) = h}]
ConcRoutedDb == [h \in HandlerNames |-> {r \in ConcRequests : routerDb(r) = h}]

WorkerResponse(handler, r, status, body) ==
    [handler |-> handler, method |-> r.method, path |-> r.path,
     status |-> status, body |-> body]

\* A worker inside handler h at position pc, with the handler's locals.
Running(pc, h, r, i, t, data) ==
    [pc |-> pc, handler |-> h, r |-> [method |-> r.method, path |-> r.path],
     i |-> i, t |-> t, data |-> data, resp |-> NoResponse]

CanStart(w) == workers[w].pc = "idle" /\ started < MaxRequests

At(w, pc) == workers[w].pc = pc

Goto(w, pc) == workers' = [workers EXCEPT ![w].pc = pc]

Answer(w, status, body) ==
    workers' = [workers EXCEPT ![w] =
        Idle(WorkerResponse(workers[w].handler, workers[w].r, status, body))]

ConcFileFrame == UNCHANGED <<backend, table, serial, last>>
ConcDbFrame == UNCHANGED <<backend, todos, nextID, file, last>>

\* getTodos: json.NewEncoder(w).Encode(todos)
ConcGetTodos(w) ==
    /\ backend = "file" /\ CanStart(w)
    /\ \E r \in ConcRouted["getTodos"] :
        workers' = [workers EXCEPT ![w] =
            Idle(WorkerResponse("getTodos", r, 200, MarshalSlice(todos)))]
    /\ started' = started + 1
    /\ UNCHANGED <<todos, nextID, file, issued, everIssued>>
    /\ ConcFileFrame

\* createTodo: Decode, then t.ID = nextID
ConcCreateRead(w) ==
    /\ backend = "file" /\ CanStart(w)
    /\ nextID <= MaxID
    /\ \E r \in ConcRouted["createTodo"] :
        workers' = [workers EXCEPT ![w] =
            Running("createIncrement", "createTodo", r, 0,
                    [r.body.todo EXCEPT !.ID = nextID], JsonNull)]
    /\ started' = started + 1
    /\ UNCHANGED <<todos, nextID, file, issued, everIssued>>
    /\ ConcFileFrame

\* createTodo: nextID++
ConcCreateIncrement(w) ==
    /\ At(w, "createIncrement")
    /\ nextID' = IncrementNextID(nextID)
    /\ Goto(w, "createAppend")
    /\ UNCHANGED <<todos, file, issued, everIssued, started>>
    /\ ConcFileFrame

\* createTodo: todos = append(todos, t)
ConcCreateAppend(w) ==
    /\ At(w, "createAppend")
    /\ todos' = Append1(todos, workers[w].t)
    /\ Goto(w, "marshal")
    /\ UNCHANGED <<nextID, file, issued, everIssued, started>>
    /\ ConcFileFrame

\* updateTodo: the loop over todos with todos[i] = updated, or NotFound
ConcUpdateReplace(w) ==
    /\ backend = "file" /\ CanStart(w)
    /\ \E r \in ConcRouted["updateTodo"] :
        LET id == IdOfPath(r.path)
            i  == IndexOfID(todos.elems, id.val)
            updated == ReplaceTodo(r.body.todo, id.val)
        IN  IF id.err \/ r.body.err
            THEN /\ workers' = [workers EXCEPT ![w] =
                        Idle(WorkerResponse("updateTodo", r, 400, TextBody))]
                 /\ todos' = todos
            ELSE IF i # 0
            THEN /\ todos' = [todos EXCEPT !.elems[i] = updated]
                 /\ workers' = [workers EXCEPT ![w] =
                        Running("marshal", "updateTodo", r, i, updated, JsonNull)]
            ELSE /\ workers' = [workers EXCEPT ![w] =
                        Idle(WorkerResponse("updateTodo", r, 404, TextBody))]
                 /\ todos' = todos
    /\ started' = started + 1
    /\ UNCHANGED <<nextID, file, issued, everIssued>>
    /\ ConcFileFrame

\* markAsDone: the loop over todos with todos[i].Done = true, or NotFound
ConcMarkSet(w) ==
    /\ backend = "file" /\ CanStart(w)
    /\ \E r \in ConcRouted["markAsDone"] :
        LET id == IdOfDonePath(r.path)
            i  == IndexOfID(todos.elems, id.val)
        IN  IF id.err
            THEN /\ workers' = [workers EXCEPT ![w] =
                        Idle(WorkerResponse("markAsDone", r, 400, TextBody))]
                 /\ todos' = todos
            ELSE IF i # 0
            THEN /\ todos' = [todos EXCEPT !.elems[i] = SetDone(todos.elems[i])]
                 /\ workers' = [workers EXCEPT ![w] =
                        Running("marshal", "markAsDone", r, i, ZeroTodo, JsonNull)]
            ELSE /\ workers' = [workers EXCEPT ![w] =
                        Idle(WorkerResponse("markAsDone", r, 404, TextBody))]
                 /\ todos' = todos
    /\ started' = started + 1
    /\ UNCHANGED <<nextID, file, issued, everIssued>>
    /\ ConcFileFrame

\* markAsDone: json.NewEncoder(w).Encode(todos[i]) after the save.  An index
\* past the end of the slice panics; net/http recovers and sends no answer.
ConcMarkEncode(w) ==
    /\ At(w, "markEncode")
    /\ IF workers[w].i <= Len(todos.elems)
       THEN Answer(w, 200, JsonObject(todos.elems[workers[w].i]))
       ELSE Answer(w, 0, NoBody)
    /\ UNCHANGED <<todos, nextID, file, issued, everIssued, started>>
    /\ ConcFileFrame

\* deleteTodo: the loop over todos with the append that removes, or NotFound
ConcDeleteRemove(w) ==
    /\ backend = "file" /\ CanStart(w)
    /\ \E r \in ConcRouted["deleteTodo"] :
        LET id == IdOfPath(r.path)
            i  == IndexOfID(todos.elems, id.val)
        IN  IF id.err
            THEN /\ workers' = [workers EXCEPT ![w] =
                        Idle(WorkerResponse("deleteTodo", r, 400, TextBody))]
                 /\ todos' = todos
            ELSE IF i # 0
            THEN /\ todos' = RemoveAt(todos, i)
                 /\ workers' = [workers EXCEPT ![w] =
                        Running("marshal", "deleteTodo", r, i, ZeroTodo, JsonNull)]
            ELSE /\ workers' = [workers EXCEPT ![w] =
                        Idle(WorkerResponse("deleteTodo", r, 404, TextBody))]
                 /\ todos' = todos
    /\ started' = started + 1
    /\ UNCHANGED <<nextID, file, issued, everIssued>>
    /\ ConcFileFrame

\* saveTodosToFile: data, err := json.MarshalIndent(todos, "", "  ")
ConcMarshal(w) ==
    /\ At(w, "marshal")
    /\ workers' = [workers EXCEPT ![w].data = MarshalSlice(todos),
                                  ![w].pc = "write"]
    /\ UNCHANGED <<todos, nextID, file, issued, everIssued, started>>
    /\ ConcFileFrame

\* saveTodosToFile: os.WriteFile(dbFile, data, 0644), and what the handler
\* does after the save, which touches nothing shared but in markAsDone.
ConcWrite(w) ==
    LET me == workers[w]
    IN  /\ At(w, "write")
        /\ file' = [exists |-> TRUE, json |-> me.data]
        /\ IF me.handler = "createTodo"
           THEN /\ Answer(w, 201, JsonObject(me.t))
                /\ issued' = Append(issued, me.t.ID)
                /\ everIssued' = everIssued \cup {me.t.ID}
           ELSE /\ UNCHANGED <<issued, everIssued>>
                /\ IF me.handler = "updateTodo"
                   THEN Answer(w, 200, JsonObject(me.t))
                   ELSE IF me.handler = "deleteTodo"
                   THEN Answer(w, 204, NoBody)
                   ELSE Goto(w, "markEncode")
        /\ UNCHANGED <<todos, nextID, started>>
        /\ ConcFileFrame

\* getTodos of main.go: the SELECT ... ORDER BY id and the Encode
ConcGetTodosDb(w) ==
    /\ backend = "db" /\ CanStart(w)
    /\ \E r \in ConcRoutedDb["getTodos"] :
        workers' = [workers EXCEPT ![w] =
            Idle(WorkerResponse("getTodos", r, 200,
                    MarshalSlice(AppendRows(NilSlice, SelectOrderById(table)))))]
    /\ started' = started + 1
    /\ UNCHANGED <<table, serial, issued, everIssued>>
    /\ ConcDbFrame

\* createTodo of main.go: the INSERT ... RETURNING id
ConcCreateDb(w) ==
    /\ backend = "db" /\ CanStart(w)
    /\ serial < MaxID
    /\ \E r \in ConcRoutedDb["createTodo"] :
        LET t == [r.body.todo EXCEPT !.ID = NextSerial(serial)]
        IN  /\ table' = table \cup {t}
            /\ workers' = [workers EXCEPT ![w] =
                    Idle(WorkerResponse("createTodo", r, 201, JsonObject(t)))]
            /\ issued' = Append(issued, t.ID)
            /\ everIssued' = everIssued \cup {t.ID}
    /\ serial' = NextSerial(serial)
    /\ started' = started + 1
    /\ ConcDbFrame

\* updateTodo of main.go: the UPDATE
ConcUpdateDb(w) ==
    /\ backend = "db" /\ CanStart(w)
    /\ \E r \in ConcRoutedDb["updateTodo"] :
        LET id == IdOfPath(r.path)
            updated == r.body.todo
        IN  IF id.err \/ r.body.err
            THEN /\ workers' = [workers EXCEPT ![w] =
                        Idle(WorkerResponse("updateTodo", r, 400, TextBody))]
                 /\ table' = table
            ELSE /\ table' = UpdateRows(table, updated.Title, updated.Done, id.val)
                 /\ workers' = [workers EXCEPT ![w] =
                        Idle(WorkerResponse("updateTodo", r, 200,
                                JsonObject([updated EXCEPT !.ID = id.val])))]
    /\ started' = started + 1
    /\ UNCHANGED <<serial, issued, everIssued>>
    /\ ConcDbFrame

\* markAsDone of main.go, first round trip: UPDATE todos SET done = true
ConcMarkUpdateDb(w) ==
    /\ backend = "db" /\ CanStart(w)
    /\ \E r \in ConcRoutedDb["markAsDone"] :
        LET id == IdOfDonePath(r.path)
        IN  IF id.err
            THEN /\ workers' = [workers EXCEPT ![w] =
                        Idle(WorkerResponse("markAsDone", r, 400, TextBody))]
                 /\ table' = table
            ELSE /\ table' = UpdateDone(table, id.val)
                 /\ workers' = [workers EXCEPT ![w] =
                        Running("markSelect", "markAsDone", r, id.val, ZeroTodo,
                                JsonNull)]
    /\ started' = started + 1
    /\ UNCHANGED <<serial, issued, everIssued>>
    /\ ConcDbFrame

\* markAsDone of main.go, second round trip: the SELECT and the answer
ConcMarkSelectDb(w) ==
    LET row == SelectById(table, workers[w].i)
    IN  /\ At(w, "markSelect")
        /\ IF row = {}
           THEN Answer(w, 404, TextBody)
           ELSE Answer(w, 200, JsonObject(CHOOSE x \in row : TRUE))
        /\ UNCHANGED <<table, serial, issued, everIssued, started>>
        /\ ConcDbFrame

\* deleteTodo of main.go: the DELETE
ConcDeleteDb(w) ==
    /\ backend = "db" /\ CanStart(w)
    /\ \E r \in ConcRoutedDb["deleteTodo"] :
        LET id == IdOfPath(r.path)
        IN  IF id.err
            THEN /\ workers' = [workers EXCEPT ![w] =
                        Idle(WorkerResponse("deleteTodo", r, 400, TextBody))]
                 /\ table' = table
            ELSE /\ table' = DeleteRows(table, id.val)
                 /\ workers' = [workers EXCEPT ![w] =
                        Idle(WorkerResponse("deleteTodo", r, 204, NoBody))]
    /\ started' = started + 1
    /\ UNCHANGED <<serial, issued, everIssued>>
    /\ ConcDbFrame

NextConc ==
    \E w \in Workers :
        \/ ConcGetTodos(w)
        \/ ConcCreateRead(w)
        \/ ConcCreateIncrement(w)
        \/ ConcCreateAppend(w)
        \/ ConcUpdateReplace(w)
        \/ ConcMarkSet(w)
        \/ ConcMarkEncode(w)
        \/ ConcDeleteRemove(w)
        \/ ConcMarshal(w)
        \/ ConcWrite(w)
        \/ ConcGetTodosDb(w)
        \/ ConcCreateDb(w)
        \/ ConcUpdateDb(w)
        \/ ConcMarkUpdateDb(w)
        \/ ConcMarkSelectDb(w)
        \/ ConcDeleteDb(w)

SpecConc == Init /\ [][NextConc]_vars

----------------------------------------------------------------------------
(* Properties of requests handled concurrently (SpecConc) *)

NoRepeat(seq) == \A i, j \in 1..Len(seq) : i # j => seq[i] # seq[j]

IdsOf(elems) == [i \in 1..Len(elems) |-> elems[i].ID]

StrictlyAscending(seq) == \A i, j \in 1..Len(seq) : i < j => seq[i] < seq[j]

\* C2: in the file-backed backend, whatever the interleaving of the handlers'
\* steps, no two records of todos have the same id and no id is returned by
\* two creates.
C2_IdsUnique ==
    backend = "file" => (NoRepeat(IdsOf(todos.elems)) /\ NoRepeat(issued))

\* C5: every 200 answer of PATCH /todos/{id}/done carries the record with the
\* id of the path and done = true, whatever runs concurrently.
C5_MarkDoneAnswersDone ==
    \A w \in Workers :
        LET resp == workers[w].resp
        IN  (resp.handler = "markAsDone" /\ resp.status = 200)
                => /\ resp.body.todo.ID = IdOfDonePath(resp.path).val
                   /\ resp.body.todo.Done

\* C8: every answer of GET /todos lists the records by strictly ascending id.
C8_ListAscending ==
    \A w \in Workers :
        LET resp == workers[w].resp
        IN  (resp.handler = "getTodos" /\ resp.body.kind = "array")
                => StrictlyAscending(IdsOf(resp.body.items))

----------------------------------------------------------------------------
(* Further properties of requests handled one after another (Spec) *)

\* The step is the handling of the PUT request r by the running backend.
UpdateStep(r) ==
    IF backend = "file" THEN updateTodo(r, "ok")
    ELSE \E up \in BOOLEAN : updateTodoDb(r, up)

\* C11: a PUT /todos/{id} answered 200 stores the body's title and done under
\* the id of the path, whatever id the body names: the record answered and
\* the record stored carry the path id, the ids of the dataset are as before
\* and every other record is unchanged.
C11_UpdateKeepsId ==
    [][(last'.handler = "updateTodo" /\ last'.status = 200)
       => \A r \in Requests :
            (r.method = "PUT" /\ r.path = last'.path /\ UpdateStep(r))
            => LET id == IdOfPath(r.path).val
                   stored == Todo(id, r.body.todo.Title, r.body.todo.Done)
               IN  /\ last'.body.todo = stored
                   /\ stored \in DatasetRecords'
                   /\ DatasetIDs' = DatasetIDs
                   /\ DatasetSize' = DatasetSize
                   /\ \A x \in DatasetRecords :
                        x.ID # id => x \in DatasetRecords']_vars

\* The ids of the records the data file holds (none when it is missing).
FileIDs ==
    IF ~file.exists \/ ParseFails(file) THEN {}
    ELSE LET stored == UnmarshalSlice(file.json).elems
         IN  {stored[i].ID : i \in 1..Len(stored)}

\* The greatest id of a set of ids, 0 for the empty set.
MaxOf(S) == IF S = {} THEN 0 ELSE CHOOSE m \in S : \A x \in S : x <= m

\* C12: in the file-backed variant a restart leaves the id counter strictly
\* above every id in the data file, and at 1 when the file is missing or
\* holds no record; the first create handled after the start returns the
\* greatest id of the file plus one, which is no id of the file.
C12_RestartResumesAboveFile ==
    [][backend = "file"
       => /\ last'.handler = "main"
             => /\ \A i \in FileIDs' : nextID' > i
                /\ nextID' = MaxOf(FileIDs') + 1
          /\ (last.handler = "main" /\ last'.handler = "createTodo"
                /\ last'.status = 201)
             => /\ last'.body.todo.ID = MaxOf(FileIDs) + 1
                /\ last'.body.todo.ID \notin FileIDs]_vars

\* A restart loaded a file that holds record 1, and the create that followed
\* returned id 2.
C12_Witness ==
    /\ backend = "file"
    /\ issued = <<2>>
    /\ last.handler = "createTodo"
    /\ last.status = 201
    /\ 1 \in DatasetIDs

\* The step is the handling of the POST request r by the running backend,
\* its storage answering.
CreateStep(r) ==
    IF backend = "file" THEN createTodo(r, "ok") ELSE createTodoDb(r, TRUE)

\* The step is the handling of the GET request r for one record by the
\* running backend, its storage answering.
GetStep(r) ==
    IF backend = "file" THEN getTodo(r) ELSE getTodoById(r, TRUE)

\* The id a request for one record names in its path.
TargetID(resp) ==
    IF resp.handler = "markAsDone" THEN IdOfDonePath(resp.path).val
    ELSE IdOfPath(resp.path).val

\* C13: create then get is a round trip, for every title and done value.
\* (a) a create answered 201 answers the body's title and done under a new
\*     id, and stores the record it answers;
\* (b) a stored record stays stored, unchanged, through every step that is
\*     not an update, markDone or delete of its own id (creates, and updates
\*     and deletes of other ids, included);
\* (c) a get of the id of a stored record answers 200 with that record.
\* Together: get after create answers the record create answered.
C13_CreateGetRoundTrip ==
    [][/\ (last'.handler = "createTodo" /\ last'.status = 201)
          => \A r \in Requests :
               (r.method = "POST" /\ r.path = last'.path /\ CreateStep(r))
               => /\ last'.body.todo.Title = r.body.todo.Title
                  /\ last'.body.todo.Done = r.body.todo.Done
                  /\ last'.body.todo.ID \notin DatasetIDs
                  /\ last'.body.todo \in DatasetRecords'
       /\ \A x \in DatasetRecords :
            \/ x \in DatasetRecords'
            \/ /\ last'.handler \in {"updateTodo", "markAsDone", "deleteTodo"}
               /\ TargetID(last') = x.ID
       /\ last'.handler \in {"getTodo", "getTodoById"}
          => \A r \in Requests :
               (r.method = "GET" /\ r.path = last'.path /\ GetStep(r))
               => \A x \in DatasetRecords :
                    x.ID = IdOfPath(r.path).val
                    => /\ last'.status = 200
                       /\ last'.body = JsonObject(x)]_vars

\* A get of record 1 answered it after a second record was created.
C13_Witness ==
    /\ last.handler \in {"getTodo", "getTodoById"}
    /\ last.status = 200
    /\ last.body.todo.ID = 1
    /\ last.body.todo \in DatasetRecords
    /\ 2 \in DatasetIDs

\* C16: in the file-backed variant a request answered 400 (an id that is no
\* integer, a body that does not decode) or 404 (no record of the id, no
\* route), and every GET request, leaves the slice in memory, the id counter
\* and the data file as they were; a create with an undecodable body takes
\* no id.
C16_RejectedAndReadsChangeNothing ==
    [][(/\ backend = "file"
        /\ last'.handler # "main"
        /\ last'.status \in {400, 404} \/ last'.method = "GET")
       => UNCHANGED <<todos, nextID, file>>]_vars

\* A create with an undecodable body was answered 400 after record 1 had
\* been created, and the counter still stands at 2.
C16_Witness ==
    /\ backend = "file"
    /\ last.handler = "createTodo"
    /\ last.status = 400
    /\ DatasetIDs = {1}
    /\ FileIDs = {1}
    /\ nextID = 2

----------------------------------------------------------------------------
(* Further properties of requests handled concurrently (SpecConc) *)

\* C14: in the file-backed variant, whenever no handler is in progress (no
\* write fails in SpecConc), the data file holds the in-memory dataset, the
\* same records in the same order: loading the file gives the slice in
\* memory, whatever the interleaving of the handlers was.
C14_FileEqualsMemoryWhenIdle ==
    (backend = "file" /\ \A w \in Workers : At(w, "idle"))
    => loadTodosFromFile(file).todos = todos

----------------------------------------------------------------------------
(* The file-backed variant with writes that can fail (SpecIO): requests     *)
(* handled one after another, os.WriteFile failing at any of them.          *)

\* The ways os.WriteFile fails, and all it can do
WriteFails == {"untouched", "partial", "complete"}
WriteOutcomes == WriteOK \cup WriteFails

InitIO ==
    /\ backend = "file"
    /\ InitData
    /\ workers = [w \in Workers |-> Idle(NoResponse)]
    /\ started = 0

IOCreateTodo ==
    /\ backend = "file"
    /\ \E r \in ConcRouted["createTodo"], wok \in WriteOutcomes :
        createTodo(r, wok)

IOUpdateTodo ==
    /\ backend = "file"
    /\ \E r \in ConcRouted["updateTodo"], wok \in WriteOutcomes :
        updateTodo(r, wok)

IOMarkAsDone ==
    /\ backend = "file"
    /\ \E r \in ConcRouted["markAsDone"], wok \in WriteOutcomes :
        markAsDone(r, wok)

IODeleteTodo ==
    /\ backend = "file"
    /\ \E r \in ConcRouted["deleteTodo"], wok \in WriteOutcomes :
        deleteTodo(r, wok)

NextIO ==
    \/ IOCreateTodo
    \/ IOUpdateTodo
    \/ IOMarkAsDone
    \/ IODeleteTodo

SpecIO == InitIO /\ [][NextIO]_vars

\* The handler the router calls for each request of ConcRequests
HandlerOf == [r \in ConcRequests |-> router(r)]

\* The step is the handling of the request r, a create, update, markDone or
\* delete, with os.WriteFile doing wok.
MutationStep(r, wok) ==
    LET h == HandlerOf[r]
    IN  IF h = "createTodo" THEN createTodo(r, wok)
        ELSE IF h = "updateTodo" THEN updateTodo(r, wok)
        ELSE IF h = "markAsDone" THEN markAsDone(r, wok)
        ELSE IF h = "deleteTodo" THEN deleteTodo(r, wok)
        ELSE FALSE

\* The step was answered with the normal status of the request r, and memory
\* holds what r asked for after it: the record created under the next id
\* (the counter advanced), the record updated or marked done, or no record
\* of the id deleted.
MemoryKeepsMutation(r) ==
    LET h == HandlerOf[r]
    IN  IF h = "createTodo"
        THEN /\ last'.status = 201
             /\ last'.body.todo =
                    Todo(nextID, r.body.todo.Title, r.body.todo.Done)
             /\ last'.body.todo \in DatasetRecords'
             /\ DatasetSize' = DatasetSize + 1
             /\ nextID' = nextID + 1
        ELSE IF h = "updateTodo"
        THEN /\ last'.status = 200
             /\ Todo(IdOfPath(r.path).val, r.body.todo.Title, r.body.todo.Done)
                    \in DatasetRecords'
             /\ DatasetIDs' = DatasetIDs
             /\ nextID' = nextID
        ELSE IF h = "markAsDone"
        THEN /\ last'.status = 200
             /\ last'.body.todo.ID = IdOfDonePath(r.path).val
             /\ last'.body.todo.Done
             /\ last'.body.todo \in DatasetRecords'
             /\ DatasetIDs' = DatasetIDs
             /\ nextID' = nextID
        ELSE /\ last'.status = 204
             /\ IdOfPath(r.path).val \notin DatasetIDs'
             /\ DatasetSize' = DatasetSize - 1
             /\ nextID' = nextID

\* The step answered the request r of ConcRequests and called
\* saveTodosToFile (the answer is no 400 or 404), os.WriteFile doing wok.
Saved(r) ==
    /\ last'.status \notin {400, 404}
    /\ r.path = last'.path
    /\ r.method = last'.method

SavedWith(r, wok) == Saved(r) /\ MutationStep(r, wok)

\* C15 as stated: a failed write during create, update, markDone or delete
\* rolls nothing back (memory and the counter keep the mutation, the answer
\* is the normal 201, 200 or 204) and the file keeps its previous content.
C15_FailedWriteKeepsFile ==
    [][\A r \in ConcRouted[last'.handler], wok \in WriteFails :
         SavedWith(r, wok) => (MemoryKeepsMutation(r) /\ file' = file)]_vars

\* C15 as amended: a failed write during create, update, markDone or delete
\* rolls nothing back (memory and the counter keep the mutation, the answer
\* is the normal 201, 200 or 204); the file is left with its previous
\* content, or with a part of the new content that cannot be loaded, or
\* with the new content; a write that succeeds leaves the file holding the
\* dataset in memory.  (Every step of SpecIO that reaches saveTodosToFile
\* is taken with each outcome of os.WriteFile, the failures included.)
C15_FailedWriteNotRolledBack ==
    [][\A r \in ConcRouted[last'.handler] :
         Saved(r)
         => /\ MemoryKeepsMutation(r)
            /\ \/ file' = file
               \/ ParseFails(file')
               \/ loadTodosFromFile(file').todos = todos'
            /\ MutationStep(r, "ok")
               => loadTodosFromFile(file').todos = todos']_vars

\* A second create was answered 201 with record 2, which memory holds, while
\* the file still holds record 1 only.
C15_Witness ==
    /\ last.handler = "createTodo"
    /\ last.status = 201
    /\ last.body.todo.ID = 2
    /\ DatasetIDs = {1, 2}
    /\ file.exists
    /\ FileIDs = {1}

====
